---- MODULE Spec2Model ----
(***************************************************************************)
(* Model of platypus/types.py: the Type descriptors Real, Real_Normal,     *)
(* Real_T, Binary, Integer, Permutation and Subset.                        *)
(*                                                                         *)
(* A client constructs one instance (inst) and then calls rand(), encode() *)
(* and decode() on it; a constructor that raised leaves no instance, and   *)
(* the client may construct again.  Every                                  *)
(* method is an operator returning the set of its possible outcomes        *)
(* [ret, err, self]: the value returned, the exception raised ("none"      *)
(* when it returns) and the instance as the call leaves it.  Draws from    *)
(* the random module and from numpy are nondeterministic choices.          *)
(*                                                                         *)
(* Numbers are integers: float(x) of an integer x keeps its value, and the *)
(* continuous draws are taken on the integer grid, which reaches below     *)
(* and above every bound the model constructs.                             *)
(* Python's None for Real_Normal.clamp is the empty sequence.              *)
(***************************************************************************)
EXTENDS Integers, Sequences, FiniteSets, TLC

VARIABLES inst, call, prev

vars == <<inst, call, prev>>

\* Integer bounds min_value, max_value are drawn from -MaxMag..MaxMag.
MaxMag == 4
\* Real bounds and default values are drawn from -MaxReal..MaxReal.
MaxReal == 1
\* Binary widths are drawn from -1..MaxBits.
MaxBits == 3
\* Element collections hold up to MaxElems distinct items of 1..MaxElems.
MaxElems == 3

IntVals == (0 - MaxMag)..MaxMag
RealVals == (0 - MaxReal)..MaxReal
Draws == (0 - MaxReal - 1)..(MaxReal + 1)
Spreads == {-1, 0, 1}
Clamps == {<<>>, <<FALSE, FALSE>>, <<TRUE, FALSE>>}
BitWidths == -1..MaxBits
Sizes == -1..(MaxElems + 1)

Max(a, b) == IF a >= b THEN a ELSE b
Min(a, b) == IF a <= b THEN a ELSE b

RECURSIVE Pow2(_)
Pow2(n) == IF n <= 0 THEN 1 ELSE 2 * Pow2(n - 1)

BitSeqs(n) == [1..Max(n, 0) -> BOOLEAN]

Injective(f) == \A i, j \in DOMAIN f : f[i] = f[j] => i = j

ElementSeqs ==
    UNION { {s \in [1..n -> 1..MaxElems] : Injective(s)} : n \in 0..MaxElems }

\* random.shuffle(s): every ordering of s.
Shuffles(s) ==
    { [i \in 1..Len(s) |-> s[p[i]]] :
        p \in {q \in [1..Len(s) -> 1..Len(s)] : Injective(q)} }

\* s[:k] of a Python list.
SliceTo(s, k) ==
    IF k >= 0 THEN SubSeq(s, 1, Min(k, Len(s)))
    ELSE SubSeq(s, 1, Max(Len(s) + k, 0))

Outcome(r, e, s) == [ret |-> r, err |-> e, self |-> s]

NoInst == [kind |-> "none"]

----------------------------------------------------------------------------
(* tools.py: the bit / Gray codec                                          *)

\* int2bin(value, nbits): the nbits-wide bit sequence of value, most
\* significant bit first.  Precondition 0 <= value < 2^nbits.
int2bin(value, nbits) ==
    [i \in 1..nbits |-> ((value \div Pow2(nbits - i)) % 2) = 1]

\* bin2int(bits): the non-negative integer the bit sequence encodes.
RECURSIVE bin2int(_)
bin2int(bits) ==
    IF Len(bits) = 0 THEN 0
    ELSE 2 * bin2int(SubSeq(bits, 1, Len(bits) - 1))
         + (IF bits[Len(bits)] THEN 1 ELSE 0)

\* bin2gray(bits): output bit 0 is input bit 0, each later output bit is the
\* exclusive-or of the input bit and the input bit before it.
bin2gray(bits) ==
    [i \in 1..Len(bits) |-> IF i = 1 THEN bits[1] ELSE bits[i] # bits[i - 1]]

\* gray2bin(bits): prefix exclusive-or accumulation, left to right.
RECURSIVE gray2bin(_)
gray2bin(bits) ==
    IF Len(bits) <= 1 THEN bits
    ELSE LET b == gray2bin(SubSeq(bits, 1, Len(bits) - 1))
         IN  Append(b, b[Len(b)] # bits[Len(bits)])

----------------------------------------------------------------------------
(* Type: the inherited identity encode / decode                            *)

Type_encode(self, value) == {Outcome(value, "none", self)}

Type_decode(self, value) == {Outcome(value, "none", self)}

----------------------------------------------------------------------------
(* Real                                                                    *)

Real_init(min_value, max_value) ==
    {Outcome(<<>>, "none",
             [kind |-> "Real", min_value |-> min_value, max_value |-> max_value])}

\* random.uniform(a, b) is a + (b - a) * random(): a point between a and b,
\* whichever of the two is larger.
Real_rand(self) ==
    { Outcome(x, "none", self) :
        x \in Min(self.min_value, self.max_value)..Max(self.min_value, self.max_value) }

----------------------------------------------------------------------------
(* Real_Normal                                                             *)

Real_Normal_init(min_value, max_value, default_value, spread, clamp) ==
    {Outcome(<<>>, "none",
             [kind |-> "Real_Normal", min_value |-> min_value,
              max_value |-> max_value, default_value |-> default_value,
              spread |-> spread, clamp |-> clamp])}

Real_Normal_rand(self) ==
    IF self.spread > 0 /\ Len(self.clamp) = 0
    THEN {Outcome(<<>>, "TypeError", self)}
    ELSE IF self.spread > 0 /\ ~self.clamp[1]
    THEN { Outcome(Min(Max(value, self.min_value), self.max_value), "none", self) :
             value \in Draws }
    ELSE {Outcome(self.default_value, "none", self)}

----------------------------------------------------------------------------
(* Real_T                                                                  *)

Real_T_init(min_value, max_value, default_value) ==
    {Outcome(<<>>, "none",
             [kind |-> "Real_T", min_value |-> min_value,
              max_value |-> max_value, default_value |-> default_value])}

Real_T_rand(self) ==
    { Outcome(Min(Max(t + self.default_value, self.min_value), self.max_value),
              "none", self) : t \in Draws }

----------------------------------------------------------------------------
(* Binary                                                                  *)

Binary_init(nbits) ==
    {Outcome(<<>>, "none", [kind |-> "Binary", nbits |-> nbits])}

Binary_rand(self) ==
    { Outcome(b, "none", self) : b \in BitSeqs(self.nbits) }

----------------------------------------------------------------------------
(* Integer                                                                 *)

\* int(math.log(x, 2)) for x >= 1.  math.log divides two floats; the quotient
\* floors to the exact logarithm for every x below 2^47, which covers the
\* integers TLC represents.  (From x = 2^48 - 1 on the quotient of 2^k - 1
\* rounds up to k and the code derives one bit more than this operator.)
RECURSIVE Log2Floor(_)
Log2Floor(x) == IF x <= 1 THEN 0 ELSE 1 + Log2Floor(x \div 2)

\* math.log raises ValueError for an argument <= 0.
Integer_init(min_value, max_value) ==
    IF max_value - min_value <= 0
    THEN {Outcome(<<>>, "ValueError", NoInst)}
    ELSE {Outcome(<<>>, "none",
                  [kind |-> "Integer",
                   nbits |-> Log2Floor(max_value - min_value) + 1,
                   min_value |-> min_value, max_value |-> max_value])}

\* Integer.encode without the Gray transform: the plain binary code.
Integer_encode_plain(self, value) ==
    {Outcome(int2bin(value - self.min_value, self.nbits), "none", self)}

Integer_encode(self, value) ==
    {Outcome(bin2gray(int2bin(value - self.min_value, self.nbits)), "none", self)}

Integer_rand(self) ==
    UNION { Integer_encode(self, v) : v \in self.min_value..self.max_value }

\* Integer.decode wrapping from max_value - min_value on (>= for >).
Integer_decode_ge(self, bits) ==
    LET value == bin2int(gray2bin(bits))
        wrapped == IF value >= self.max_value - self.min_value
                   THEN value - (self.max_value - self.min_value)
                   ELSE value
    IN  {Outcome(self.min_value + wrapped, "none", self)}

\* Integer.decode wrapping by the size of the range, max_value - min_value + 1.
Integer_decode_mod(self, bits) ==
    LET value == bin2int(gray2bin(bits))
        wrapped == IF value > self.max_value - self.min_value
                   THEN value - (self.max_value - self.min_value + 1)
                   ELSE value
    IN  {Outcome(self.min_value + wrapped, "none", self)}

Integer_decode(self, bits) ==
    LET value == bin2int(gray2bin(bits))
        wrapped == IF value > self.max_value - self.min_value
                   THEN value - (self.max_value - self.min_value)
                   ELSE value
    IN  {Outcome(self.min_value + wrapped, "none", self)}

----------------------------------------------------------------------------
(* Permutation                                                             *)

Permutation_init(elements) ==
    {Outcome(<<>>, "none", [kind |-> "Permutation", elements |-> elements])}

\* Permutation.rand shuffling self.elements in place, without the deepcopy.
Permutation_rand_inplace(self) ==
    { Outcome(e, "none", [self EXCEPT !.elements = e]) : e \in Shuffles(self.elements) }

Permutation_rand(self) ==
    { Outcome(e, "none", self) : e \in Shuffles(self.elements) }

----------------------------------------------------------------------------
(* Subset                                                                  *)

Subset_init(elements, size) ==
    {Outcome(<<>>, "none",
             [kind |-> "Subset", elements |-> elements, size |-> size])}

\* indices = list(range(1, len(self.elements))) are the zero-based indices
\* 1..len-1, the one-based positions 2..len.
Subset_rand(self) ==
    LET indices == [i \in 1..(Len(self.elements) - 1) |-> i + 1]
    IN  { Outcome([k \in 1..Len(SliceTo(sh, self.size)) |-> self.elements[sh[k]]],
                  "none", self) : sh \in Shuffles(indices) }

----------------------------------------------------------------------------
(* The client: construct, then rand / encode / decode                      *)

Constructors ==
    {"Real", "Real_Normal", "Real_T", "Binary", "Integer", "Permutation", "Subset"}

NoCall == [op |-> "none", arg |-> <<>>, ret |-> <<>>, err |-> "none"]

Do(op, arg, outcomes) ==
    \E o \in outcomes :
        /\ inst' = o.self
        /\ call' = [op |-> op, arg |-> arg, ret |-> o.ret, err |-> o.err]
        /\ prev' = call

Init ==
    /\ inst = NoInst
    /\ call = NoCall
    /\ prev = NoCall

NewReal ==
    inst.kind = "none" /\ \E lo, hi \in RealVals : Do("Real", <<lo, hi>>, Real_init(lo, hi))

NewReal_Normal ==
    inst.kind = "none" /\ \E lo, hi, d \in RealVals, s \in Spreads, c \in Clamps :
        Do("Real_Normal", <<lo, hi, d, s, c>>, Real_Normal_init(lo, hi, d, s, c))

NewReal_T ==
    inst.kind = "none" /\ \E lo, hi, d \in RealVals :
        Do("Real_T", <<lo, hi, d>>, Real_T_init(lo, hi, d))

NewBinary ==
    inst.kind = "none" /\ \E n \in BitWidths : Do("Binary", <<n>>, Binary_init(n))

NewInteger ==
    inst.kind = "none" /\ \E lo, hi \in IntVals : Do("Integer", <<lo, hi>>, Integer_init(lo, hi))

NewPermutation ==
    inst.kind = "none" /\ \E e \in ElementSeqs : Do("Permutation", <<e>>, Permutation_init(e))

NewSubset ==
    inst.kind = "none" /\ \E e \in ElementSeqs, n \in Sizes : Do("Subset", <<e, n>>, Subset_init(e, n))

RandReal == inst.kind = "Real" /\ Do("rand", <<>>, Real_rand(inst))

RandReal_Normal ==
    inst.kind = "Real_Normal" /\ Do("rand", <<>>, Real_Normal_rand(inst))

RandReal_T == inst.kind = "Real_T" /\ Do("rand", <<>>, Real_T_rand(inst))

RandBinary == inst.kind = "Binary" /\ Do("rand", <<>>, Binary_rand(inst))

RandInteger == inst.kind = "Integer" /\ Do("rand", <<>>, Integer_rand(inst))

RandPermutation ==
    inst.kind = "Permutation" /\ Do("rand", <<>>, Permutation_rand(inst))

RandSubset == inst.kind = "Subset" /\ Do("rand", <<>>, Subset_rand(inst))

\* Integer.encode on any value whose offset int2bin can take.
EncodeInteger ==
    /\ inst.kind = "Integer"
    /\ \E v \in inst.min_value..(inst.min_value + Pow2(inst.nbits) - 1) :
          Do("encode", v, Integer_encode(inst, v))

\* Integer.decode on any bit sequence of width nbits.
DecodeInteger ==
    /\ inst.kind = "Integer"
    /\ \E b \in BitSeqs(inst.nbits) : Do("decode", b, Integer_decode(inst, b))

\* The other variants inherit the identity codec; the client passes the
\* value rand() has just handed out.
EncodeOther ==
    /\ inst.kind \notin {"none", "Integer"}
    /\ call.op = "rand" /\ call.err = "none"
    /\ Do("encode", call.ret, Type_encode(inst, call.ret))

DecodeOther ==
    /\ inst.kind \notin {"none", "Integer"}
    /\ call.op = "encode"
    /\ Do("decode", call.ret, Type_decode(inst, call.ret))

Next ==
    \/ NewReal
    \/ NewReal_Normal
    \/ NewReal_T
    \/ NewBinary
    \/ NewInteger
    \/ NewPermutation
    \/ NewSubset
    \/ RandReal
    \/ RandReal_Normal
    \/ RandReal_T
    \/ RandBinary
    \/ RandInteger
    \/ RandPermutation
    \/ RandSubset
    \/ EncodeInteger
    \/ DecodeInteger
    \/ EncodeOther
    \/ DecodeOther

Spec == Init /\ [][Next]_vars

----------------------------------------------------------------------------
(* Properties                                                              *)

InRange(self, v) == self.min_value <= v /\ v <= self.max_value

\* The positions at which two bit sequences of one length differ.
DiffBits(a, b) == {i \in 1..Len(a) : a[i] # b[i]}

\* A decode() call on the bits the encode() call before it returned.
DecodeOfEncode ==
    /\ inst.kind = "Integer"
    /\ call.op = "decode"
    /\ prev.op = "encode"
    /\ call.arg = prev.ret
    /\ InRange(inst, prev.arg)

\* C1: for every Integer type and every v in [min_value, max_value],
\* decode(encode(v)) = v.
C1_RoundTrip == DecodeOfEncode => (call.err = "none" /\ call.ret = prev.arg)

\* The largest value of a five-value range went through encode and decode.
C1_Witness ==
    /\ DecodeOfEncode
    /\ inst.max_value - inst.min_value = 4
    /\ prev.arg = inst.max_value
    /\ call.ret = inst.max_value

\* Two encode() calls in a row, on v and then on v + 1, both in range.
EncodeOfNeighbours ==
    /\ inst.kind = "Integer"
    /\ call.op = "encode"
    /\ prev.op = "encode"
    /\ call.arg = prev.arg + 1
    /\ InRange(inst, prev.arg)
    /\ InRange(inst, call.arg)

\* C3: encode(v) and encode(v + 1), both in range, have length nbits and
\* differ in exactly one bit position.
C3_GrayAdjacency ==
    EncodeOfNeighbours =>
        /\ Len(prev.ret) = inst.nbits
        /\ Len(call.ret) = inst.nbits
        /\ Cardinality(DiffBits(prev.ret, call.ret)) = 1

\* encode() of the offsets 3 and then 4 at width 3: the binary codes 011 and
\* 100 differ in three bits, the Gray codes 010 and 110 in one.
C3_Witness ==
    /\ EncodeOfNeighbours
    /\ call.arg - inst.min_value = 4
    /\ inst.nbits = 3

\* C4: encode(value) fails, instead of returning a bit sequence, whenever
\* value - min_value is negative or greater than max_value - min_value.
C4_EncodeRejectsOutOfRange ==
    (inst.kind = "Integer" /\ call.op = "encode" /\ ~InRange(inst, call.arg))
        => call.err # "none"

\* C5: for a Subset over distinct elements with 0 <= size <= len(elements),
\* rand() returns exactly size pairwise-distinct members of elements.
C5_SubsetRandSize ==
    (/\ inst.kind = "Subset"
     /\ call.op = "rand"
     /\ 0 <= inst.size
     /\ inst.size <= Len(inst.elements))
        => /\ call.err = "none"
           /\ Len(call.ret) = inst.size
           /\ Injective(call.ret)
           /\ \A i \in 1..Len(call.ret) :
                 \E j \in 1..Len(inst.elements) : call.ret[i] = inst.elements[j]

\* C6: for Real, Real_Normal and Real_T with min_value <= max_value (any
\* default_value, spread and clamp pair), rand() returns a value in
\* [min_value, max_value].
C6_RealRandInBounds ==
    (/\ inst.kind \in {"Real", "Real_Normal", "Real_T"}
     /\ call.op = "rand"
     /\ inst.min_value <= inst.max_value
     /\ (inst.kind = "Real_Normal" => Len(inst.clamp) = 2))
        => (call.err = "none" /\ InRange(inst, call.ret))

\* C7: no instance exists with invalid parameters: min_value > max_value for
\* Real, Real_Normal, Real_T and Integer, nbits <= 0 for Binary, size < 0 or
\* size > len(elements) for Subset; the constructor raised instead.
C7_ConstructionValidates ==
    /\ inst.kind \in {"Real", "Real_Normal", "Real_T", "Integer"}
          => inst.min_value <= inst.max_value
    /\ inst.kind = "Binary" => inst.nbits > 0
    /\ inst.kind = "Subset" => (0 <= inst.size /\ inst.size <= Len(inst.elements))

\* A decode() call on Integer(0, 4) whose input Gray-decodes to the value n.
DecodesSurplus(n) ==
    /\ inst.kind = "Integer"
    /\ inst.min_value = 0
    /\ inst.max_value = 4
    /\ call.op = "decode"
    /\ bin2int(gray2bin(call.arg)) = n

\* C8 as amended: Integer(0, 4) has nbits = 3, and the three length-3 bit
\* sequences whose Gray-decoded value is 5, 6 and 7 decode to 1, 2 and 3.
C8_SurplusWraps ==
    /\ (inst.kind = "Integer" /\ inst.min_value = 0 /\ inst.max_value = 4)
          => inst.nbits = 3
    /\ \A n \in 5..7 : DecodesSurplus(n) => (Len(call.arg) = 3 /\ call.ret = n - 4)

\* The pattern of value 7 was decoded on Integer(0, 4).
C8_Witness == DecodesSurplus(7) /\ call.ret = 3

\* C8 as stated: the patterns of value 5, 6 and 7 decode to 0, 1 and 2.
C8_SurplusWrapsToZero ==
    /\ (inst.kind = "Integer" /\ inst.min_value = 0 /\ inst.max_value = 4)
          => inst.nbits = 3
    /\ \A n \in 5..7 : DecodesSurplus(n) => (Len(call.arg) = 3 /\ call.ret = n - 5)

\* C10: rand(), encode() and decode() leave the instance's stored parameters
\* (min_value, max_value, nbits, elements, size, ...) as they were.
C10_CallsKeepParameters ==
    [][call'.op \notin Constructors => inst' = inst]_vars

\* Permutation.rand() has returned an ordering other than the stored one.
C10_Witness ==
    /\ inst.kind = "Permutation"
    /\ call.op = "rand"
    /\ Len(inst.elements) = MaxElems
    /\ call.ret # inst.elements

====
